---- MODULE Spec2Model ----
(***************************************************************************)
(* Capability orchestration core of metaslim/poc:                          *)
(*   - ToolCache (scripts/trading_assistant.py), a lock-protected TTL      *)
(*     cache, modelled one statement at a time under its lock;             *)
(*   - TradingAssistant._execute_tool_with_cache / _execute_tools_parallel *)
(*   - AgentManager.query_agent / query_multiple_agents and its two modes. *)
(* SpecCache, SpecTools and SpecAgents exercise one component each; Spec   *)
(* exercises the two dispatchers (sys says which one a behaviour runs).    *)
(***************************************************************************)
EXTENDS Integers, Sequences, FiniteSets, TLC

(***************************************************************************)
(* Python values.  None and strings are kept apart by a tag so that        *)
(* truthiness ("if cached_result:") and "is None" are different tests.     *)
(***************************************************************************)
PyNone == <<"None">>
PyStr(s) == <<"str", s>>
Truthy(v) == v # PyNone /\ v # PyStr("")

\* ---- bounds of the model ----
MaxTicks == 4
MaxToolTicks == 2
TickStep == 300
ToolTickStep == 400
MaxOps == 3

\* ---- program constants ----
TTL == 600

Workers == {"w1", "w2"}
NoThread == "none"
Keys == {"k1", "k2"}
CacheValues == {PyStr(""), PyStr("{}")}

\* dict helpers
DictSet(d, k, v) == [x \in (DOMAIN d) \cup {k} |-> IF x = k THEN v ELSE d[x]]
DictDel(d, k) == [x \in (DOMAIN d) \ {k} |-> d[x]]
EmptyDict == [x \in {} |-> PyNone]

VARIABLES
    now,          \* time.time(), seconds
    ticks,        \* number of clock advances so far (bounds the run)
    cache,        \* ToolCache._cache: key -> value
    timestamps,   \* ToolCache._timestamps: key -> insertion time
    lock,         \* ToolCache._lock: holder, or NoThread
    cpc,          \* per worker: position inside get/set
    cop,          \* per worker: the call in progress [op, key, val, at]
    cres,         \* per worker: the last finished get [key, ret, at, latest, evicted]
    lastSet,      \* history: key -> the latest completed set [val, at]
    nops,         \* history: number of cache calls started
    sys           \* the component this behaviour exercises

clockVars == <<now, ticks>>
storeVars == <<cache, timestamps, lastSet>>
lockVars == <<lock, cpc, cop, cres, nops>>

VARIABLES
    tool_calls,   \* the batch handed to _execute_tools_parallel
    tpc,          \* the dispatching thread: idle, single, collect, returned
    task,         \* per request: the _execute_tool_with_cache call on it
    results,      \* the result map being filled
    stats,        \* TradingAssistant.stats
    stats0,       \* history: stats when the dispatch began
    lastOk        \* history: <<tool, argument map>> -> time of its last cached success

toolVars == <<tool_calls, tpc, task, results, stats, stats0, lastOk>>

VARIABLES
    requests,         \* the request list: the agent_type of each request
    failing,          \* the agents whose process_request raises
    apc,              \* the dispatching thread: idle, seq, collect, returned, raised
    parallel,         \* the mode of the dispatch in progress
    atask,            \* per request: the query_agent call on it
    aresults,         \* the results dict being filled
    batch,            \* the dict the last dispatch returned
    lastBatch,        \* history: mode -> what the last dispatch in that mode gave
    session_history,  \* AgentManager.session_history
    nqueries,         \* history: dispatches started
    nrecords          \* history: records appended so far (a record's ordinal)

agentVars == <<requests, failing, apc, parallel, atask, aresults, batch, lastBatch,
               session_history, nqueries, nrecords>>

VARIABLES
    registry,     \* AgentToolRegistry.tools: the registered tool names
    regLog,       \* history: the call_tool calls made, each with what it gave
    statsLog,     \* history: the get_session_stats and reset_session calls made,
                  \* each with the records made before it (at) and the history it saw
    hashSeed,     \* the process's string hash seed: the order a set lists tool names in
    selLog,       \* history: the select_tools calls made, each with what it gave
    sentLog       \* history: the summaries synthesized, each with its input

otherVars == <<registry, regLog, statsLog, hashSeed, selLog, sentLog>>

vars == <<sys, clockVars, storeVars, lockVars, toolVars, agentVars, otherVars>>
\* what each component leaves alone
notCache == <<sys, toolVars, agentVars, otherVars>>
notTools == <<sys, lockVars, agentVars, otherVars>>
notAgents == <<sys, clockVars, storeVars, lockVars, toolVars, otherVars>>
notRegistry == <<sys, clockVars, storeVars, lockVars, toolVars, agentVars, statsLog,
                 hashSeed, selLog, sentLog>>
notSession == <<sys, clockVars, storeVars, lockVars, toolVars, requests, failing, apc,
                parallel, atask, aresults, batch, lastBatch, nqueries, registry, regLog,
                hashSeed, selLog, sentLog>>
notSelector == <<sys, clockVars, storeVars, lockVars, toolVars, agentVars, registry, regLog,
                 statsLog, sentLog>>
notSummary == <<sys, clockVars, storeVars, lockVars, toolVars, agentVars, registry, regLog,
                statsLog, hashSeed, selLog>>

NoOp == [op |-> "none", key |-> "", val |-> PyNone, at |-> 0]
NoSet == [val |-> PyNone, at |-> -1]
NoRes == [key |-> "", ret |-> PyNone, at |-> 0, latest |-> NoSet,
          evicted |-> FALSE, err |-> FALSE]

\* "with self._lock": the body is entered only when nobody holds the lock
CanAcquire_noLock(l) == TRUE
CanAcquire(l) == l = NoThread

\* "time.time() - self._timestamps[key] > self._ttl"
Expired_swapped(n, ts) == ts - n > TTL
Expired(n, ts) == n - ts > TTL

InitCache ==
    /\ now = 0
    /\ ticks = 0
    /\ lock = NoThread
    /\ cpc = [t \in Workers |-> "idle"]
    /\ cop = [t \in Workers |-> NoOp]
    /\ cres = [t \in Workers |-> NoRes]
    /\ nops = 0

\* the clock advances by d, at most max times
Tick(d, max) ==
    /\ ticks < max
    /\ now' = now + d
    /\ ticks' = ticks + 1

\* a worker calls cache.get(k)
GetCall(t, k) ==
    /\ sys = "cache"
    /\ cpc[t] = "idle"
    /\ nops < MaxOps
    /\ cpc' = [cpc EXCEPT ![t] = "g_wait"]
    /\ cop' = [cop EXCEPT ![t] = [op |-> "get", key |-> k, val |-> PyNone, at |-> 0]]
    /\ cres' = [cres EXCEPT ![t] = NoRes]
    /\ nops' = nops + 1
    /\ UNCHANGED <<now, ticks, cache, timestamps, lastSet, lock>>
    /\ UNCHANGED notCache

\* ToolCache.get, line 87: enter the lock
GetEnter(t) ==
    /\ cpc[t] = "g_wait"
    /\ CanAcquire(lock)
    /\ lock' = t
    /\ cpc' = [cpc EXCEPT ![t] = "g_in"]
    /\ UNCHANGED <<now, ticks, cache, timestamps, lastSet, cop, cres, nops>>
    /\ UNCHANGED notCache

\* a get returns r and leaves the lock
GetReturn(t, r, at, isErr) ==
    /\ cres' = [cres EXCEPT ![t] = [key |-> cop[t].key, ret |-> r, at |-> at,
                                    latest |-> IF cop[t].key \in DOMAIN lastSet
                                               THEN lastSet[cop[t].key] ELSE NoSet,
                                    evicted |-> cop[t].key \notin DOMAIN cache',
                                    err |-> isErr]]
    /\ cpc' = [cpc EXCEPT ![t] = "idle"]
    /\ cop' = [cop EXCEPT ![t] = NoOp]
    /\ lock' = IF lock = t THEN NoThread ELSE lock

\* line 88-89: "if key not in self._cache: return None"
GetCheckIn(t) ==
    /\ cpc[t] = "g_in"
    /\ IF cop[t].key \notin DOMAIN cache
       THEN /\ UNCHANGED <<cache>>
            /\ GetReturn(t, PyNone, now, FALSE)
       ELSE /\ cpc' = [cpc EXCEPT ![t] = "g_ttl"]
            /\ UNCHANGED <<cache, cop, cres, lock>>
    /\ UNCHANGED <<now, ticks, timestamps, lastSet, nops>>
    /\ UNCHANGED notCache

\* line 90: the expiry test reads the clock and the entry's timestamp
GetCheckTTL(t) ==
    /\ cpc[t] = "g_ttl"
    /\ IF cop[t].key \notin DOMAIN timestamps
       THEN /\ UNCHANGED <<cache>>                 \* KeyError leaves the with block
            /\ GetReturn(t, PyNone, now, TRUE)
       ELSE /\ cpc' = [cpc EXCEPT ![t] =
                         IF Expired(now, timestamps[cop[t].key]) THEN "g_del" ELSE "g_ret"]
            /\ cop' = [cop EXCEPT ![t].at = now]
            /\ UNCHANGED <<cache, cres, lock>>
    /\ UNCHANGED <<now, ticks, timestamps, lastSet, nops>>
    /\ UNCHANGED notCache

\* line 91: "del self._cache[key]"
GetEvictValue(t) ==
    /\ cpc[t] = "g_del"
    /\ IF cop[t].key \notin DOMAIN cache
       THEN /\ UNCHANGED <<cache>>
            /\ GetReturn(t, PyNone, cop[t].at, TRUE)
       ELSE /\ cache' = DictDel(cache, cop[t].key)
            /\ cpc' = [cpc EXCEPT ![t] = "g_del2"]
            /\ UNCHANGED <<cop, cres, lock>>
    /\ UNCHANGED <<now, ticks, timestamps, lastSet, nops>>
    /\ UNCHANGED notCache

\* line 92-93: "del self._timestamps[key]; return None"
GetEvictStamp(t) ==
    /\ cpc[t] = "g_del2"
    /\ timestamps' = DictDel(timestamps, cop[t].key)
    /\ UNCHANGED <<cache>>
    /\ GetReturn(t, PyNone, cop[t].at, cop[t].key \notin DOMAIN timestamps)
    /\ UNCHANGED <<now, ticks, lastSet, nops>>
    /\ UNCHANGED notCache

\* line 94: "return self._cache[key]"
GetHit(t) ==
    /\ cpc[t] = "g_ret"
    /\ UNCHANGED <<cache>>
    /\ IF cop[t].key \in DOMAIN cache
       THEN GetReturn(t, cache[cop[t].key], cop[t].at, FALSE)
       ELSE GetReturn(t, PyNone, cop[t].at, TRUE)
    /\ UNCHANGED <<now, ticks, timestamps, lastSet, nops>>
    /\ UNCHANGED notCache

\* a worker calls cache.set(k, v)
SetCall(t, k, v) ==
    /\ sys = "cache"
    /\ cpc[t] = "idle"
    /\ nops < MaxOps
    /\ cpc' = [cpc EXCEPT ![t] = "s_wait"]
    /\ cop' = [cop EXCEPT ![t] = [op |-> "set", key |-> k, val |-> v, at |-> 0]]
    /\ cres' = [cres EXCEPT ![t] = NoRes]
    /\ nops' = nops + 1
    /\ UNCHANGED <<now, ticks, cache, timestamps, lastSet, lock>>
    /\ UNCHANGED notCache

\* ToolCache.set, line 97: enter the lock
SetEnter(t) ==
    /\ cpc[t] = "s_wait"
    /\ CanAcquire(lock)
    /\ lock' = t
    /\ cpc' = [cpc EXCEPT ![t] = "s_val"]
    /\ UNCHANGED <<now, ticks, cache, timestamps, lastSet, cop, cres, nops>>
    /\ UNCHANGED notCache

\* line 98: "self._cache[key] = value"
SetValue(t) ==
    /\ cpc[t] = "s_val"
    /\ cache' = DictSet(cache, cop[t].key, cop[t].val)
    /\ cpc' = [cpc EXCEPT ![t] = "s_ts"]
    /\ UNCHANGED <<now, ticks, timestamps, lock, cop, cres, lastSet, nops>>
    /\ UNCHANGED notCache

\* line 99: "self._timestamps[key] = time.time()", then the lock is released
SetStamp(t) ==
    /\ cpc[t] = "s_ts"
    /\ timestamps' = DictSet(timestamps, cop[t].key, now)
    /\ lastSet' = DictSet(lastSet, cop[t].key, [val |-> cop[t].val, at |-> now])
    /\ cpc' = [cpc EXCEPT ![t] = "idle"]
    /\ cop' = [cop EXCEPT ![t] = NoOp]
    /\ lock' = IF lock = t THEN NoThread ELSE lock
    /\ UNCHANGED <<now, ticks, cache, cres, nops>>
    /\ UNCHANGED notCache

CacheTickStep ==
    /\ sys = "cache"
    /\ Tick(TickStep, MaxTicks)
    /\ UNCHANGED <<storeVars, lockVars>>
    /\ UNCHANGED notCache


(***************************************************************************)
(* TradingAssistant: _execute_tool_with_cache and _execute_tools_parallel  *)
(***************************************************************************)
\* ---- bounds ----
MaxCalls == 2

\* ---- program constants ----
MaxWorkers == 4
ResultTimeout == 30

\* AgentToolRegistry.tools (a part of it) and a name that is not registered
Tools == {"get_market_data", "analyze_market_sentiment"}
UnknownTool == "no_such_tool"

\* argument names in the order sort_keys puts them
ArgOrder == <<"analysis_type", "sentiment_type", "symbols">>
Rank(k) == CHOOSE i \in 1..Len(ArgOrder) : ArgOrder[i] = k

\* an argument dict is written as its (name, value) pairs in insertion order
ArgsA == << <<"symbols", "AAPL">>, <<"analysis_type", "prices">> >>
ArgsA2 == << <<"analysis_type", "prices">>, <<"symbols", "AAPL">> >>
ArgsB == << <<"symbols", "SPY">>, <<"analysis_type", "prices">> >>
ArgsS == << <<"symbols", "AAPL">>, <<"sentiment_type", "comprehensive">> >>
Call(t, a) == [tool |-> t, args |-> a]
CallChoices ==
    { Call("get_market_data", ArgsA), Call("get_market_data", ArgsA2),
      Call("get_market_data", ArgsB), Call("analyze_market_sentiment", ArgsS) }

\* the dict query_agent hands back when the agent's process_request raised
\* (agent_manager.py lines 59-64): the tool's function passes it on as its result
AgentErrorPayload == "{\"error\": \"Agent failed to process request\"}"

\* what the tool's function hands back, as json.dumps(result, indent=2) prints it
Payloads == {"{}", AgentErrorPayload}

\* the dict the pairs denote
ArgMap(args) == {args[i] : i \in DOMAIN args}

RECURSIVE SortItems(_)
SortItems(S) ==
    IF S = {} THEN <<>>
    ELSE LET m == CHOOSE p \in S : \A q \in S : Rank(p[1]) <= Rank(q[1])
         IN <<m>> \o SortItems(S \ {m})

RECURSIVE ItemTokens(_)
ItemTokens(items) ==
    IF items = <<>> THEN <<>>
    ELSE <<items[1][1], ": ", items[1][2]>>
         \o (IF Len(items) > 1 THEN <<", ">> ELSE <<>>)
         \o ItemTokens(Tail(items))

\* json.dumps(args, sort_keys=...): the text, token by token
JsonDumps(args, sort_keys) ==
    <<"{">> \o ItemTokens(IF sort_keys THEN SortItems(ArgMap(args)) ELSE args) \o <<"}">>

\* line 201: cache_key = f"{tool_name}:{json.dumps(args, sort_keys=True)}"
CacheKey_unsorted(tool, args) == <<tool, ":">> \o JsonDumps(args, FALSE)
CacheKey(tool, args) == <<tool, ":">> \o JsonDumps(args, TRUE)

\* line 204: "if cached_result:"
IsHit_never(v) == FALSE
IsHit(v) == Truthy(v)

\* ToolCache.get as one step (its body runs under the lock)
GetRet(k) ==
    IF k \notin DOMAIN cache THEN PyNone
    ELSE IF Expired(now, timestamps[k]) THEN PyNone ELSE cache[k]
GetEvicts(k) == k \in DOMAIN cache /\ Expired(now, timestamps[k])

NoHeld == [has |-> FALSE, val |-> PyNone]
NewTask ==
    [pc |-> "queued", held |-> NoHeld, semHit |-> FALSE, got |-> PyNone,
     tmp |-> 0, ret |-> <<"none">>, callAt |-> 0, slow |-> FALSE, invoked |-> 0,
     dHits |-> 0, dCalled |-> 0, collected |-> FALSE]

\* the store at the start: empty, or (for the assistant) holding what an earlier
\* successful call of get_market_data left in it at time 0
InitStore ==
    \/ /\ cache = EmptyDict
       /\ timestamps = EmptyDict
       /\ lastSet = EmptyDict
       /\ lastOk = EmptyDict
    \/ /\ sys = "tools"
       /\ \E p \in Payloads :
            /\ cache = DictSet(EmptyDict, CacheKey("get_market_data", ArgsA), PyStr(p))
            /\ lastSet = DictSet(EmptyDict, CacheKey("get_market_data", ArgsA),
                                 [val |-> PyStr(p), at |-> 0])
       /\ timestamps = DictSet(EmptyDict, CacheKey("get_market_data", ArgsA), 0)
       /\ lastOk = DictSet(EmptyDict, <<"get_market_data", ArgMap(ArgsA)>>, 0)

InitTools ==
    /\ tool_calls = <<>>
    /\ tpc = "idle"
    /\ task = <<>>
    /\ results = EmptyDict
    /\ stats = [tools_called |-> 0, cache_hits |-> 0]
    /\ stats0 = [tools_called |-> 0, cache_hits |-> 0]

Batches(n) == UNION {[1..m -> CallChoices] : m \in 0..n}
Min(a, b) == IF a < b THEN a ELSE b
Busy == {j \in DOMAIN task : task[j].pc \notin {"queued", "done"}}
SemKey(i) == <<tool_calls[i].tool, ArgMap(tool_calls[i].args)>>
KeyOf(i) == CacheKey(tool_calls[i].tool, tool_calls[i].args)

\* _execute_tools_parallel, lines 226-238: an empty batch returns at once, one
\* call runs on the calling thread, more are submitted to the pool
ExecuteToolsParallel(calls) ==
    /\ sys = "tools"
    /\ tpc = "idle"
    /\ tool_calls' = calls
    /\ task' = [i \in 1..Len(calls) |-> NewTask]
    /\ results' = EmptyDict
    /\ stats0' = stats
    /\ tpc' = IF Len(calls) = 0 THEN "returned"
              ELSE IF Len(calls) <= 1 THEN "single" ELSE "collect"
    /\ UNCHANGED <<stats, lastOk, clockVars, storeVars>>
    /\ UNCHANGED notTools

\* lines 201-205 and 209: a worker takes the next queued call, builds the
\* signature and asks the cache.  On a hit it reads the cache_hits counter (first
\* half of "+= 1"); on a miss tool_registry.call_tool(tool_name, **args) starts
ToolGet(i) ==
    /\ tpc \in {"single", "collect"}
    /\ i \in DOMAIN task
    /\ task[i].pc = "queued"
    /\ \A j \in 1..(i-1) : task[j].pc # "queued"
    /\ Cardinality(Busy) < Min(Len(tool_calls), MaxWorkers)
    /\ LET k == KeyOf(i)
           r == GetRet(k)
       IN /\ task' = [task EXCEPT ![i] =
                 [@ EXCEPT !.pc = IF IsHit(r) THEN "hit_store" ELSE "calling",
                           !.got = r,
                           !.tmp = IF IsHit(r) THEN stats.cache_hits ELSE 0,
                           !.invoked = IF IsHit(r) THEN @ ELSE @ + 1,
                           !.callAt = IF IsHit(r) THEN 0 ELSE now,
                           !.held = IF k \in DOMAIN cache /\ now - timestamps[k] <= TTL
                                    THEN [has |-> TRUE, val |-> cache[k]] ELSE NoHeld,
                           !.semHit = /\ SemKey(i) \in DOMAIN lastOk
                                      /\ now - lastOk[SemKey(i)] <= TTL]]
          /\ cache' = IF GetEvicts(k) THEN DictDel(cache, k) ELSE cache
          /\ timestamps' = IF GetEvicts(k) THEN DictDel(timestamps, k) ELSE timestamps
    /\ UNCHANGED <<tool_calls, tpc, results, stats, stats0, lastOk, lastSet, clockVars>>
    /\ UNCHANGED notTools

\* lines 205-206: write the counter back and return the cached text
ToolHitStore(i) ==
    /\ i \in DOMAIN task
    /\ task[i].pc = "hit_store"
    /\ stats' = [stats EXCEPT !.cache_hits = task[i].tmp + 1]
    /\ task' = [task EXCEPT ![i] =
            [@ EXCEPT !.pc = "done", !.tmp = 0, !.dHits = stats'.cache_hits - task[i].tmp,
                      !.got = PyNone, !.ret = <<"cached", task[i].got>>]]
    /\ UNCHANGED <<tool_calls, tpc, results, stats0, lastOk, clockVars, storeVars>>
    /\ UNCHANGED notTools

\* lines 210-216 and 218-220: call_tool comes back.  An unregistered name, or a
\* function that raised, has no true "success": the call returns the failure text
\* and nothing is cached.  Otherwise the result is printed by json.dumps, stored
\* with cache.set (one step under the lock) and the tools_called counter is read
ToolCallReturns(i, ok, payload) ==
    /\ i \in DOMAIN task
    /\ task[i].pc = "calling"
    /\ ok => tool_calls[i].tool \in Tools
    /\ IF ok
       THEN /\ task' = [task EXCEPT ![i] =
                   [@ EXCEPT !.pc = "called_store", !.got = PyStr(payload), !.callAt = 0,
                             !.tmp = stats.tools_called,
                             !.slow = now - task[i].callAt > ResultTimeout]]
            /\ cache' = DictSet(cache, KeyOf(i), PyStr(payload))
            /\ timestamps' = DictSet(timestamps, KeyOf(i), now)
            /\ lastSet' = DictSet(lastSet, KeyOf(i), [val |-> PyStr(payload), at |-> now])
            /\ lastOk' = DictSet(lastOk, SemKey(i), now)
       ELSE /\ task' = [task EXCEPT ![i] =
                   [@ EXCEPT !.pc = "done", !.callAt = 0,
                             !.slow = now - task[i].callAt > ResultTimeout,
                             !.ret = <<"failed", PyNone>>]]
            /\ UNCHANGED <<storeVars, lastOk>>
    /\ UNCHANGED <<tool_calls, tpc, results, stats, stats0, clockVars>>
    /\ UNCHANGED notTools

\* lines 216-217: write the counter back and return the result
ToolCalledStore(i) ==
    /\ i \in DOMAIN task
    /\ task[i].pc = "called_store"
    /\ stats' = [stats EXCEPT !.tools_called = task[i].tmp + 1]
    /\ task' = [task EXCEPT ![i] =
            [@ EXCEPT !.pc = "done", !.tmp = 0, !.dCalled = stats'.tools_called - task[i].tmp,
                      !.got = PyNone, !.ret = <<"ok", task[i].got>>]]
    /\ UNCHANGED <<tool_calls, tpc, results, stats0, lastOk, clockVars, storeVars>>
    /\ UNCHANGED notTools

\* lines 229-232: the single call has returned on the calling thread
SingleReturn ==
    /\ tpc = "single"
    /\ task[1].pc = "done"
    /\ results' = DictSet(results, tool_calls[1].tool, task[1].ret)
    /\ task' = [task EXCEPT ![1] = [@ EXCEPT !.collected = TRUE]]
    /\ tpc' = "returned"
    /\ UNCHANGED <<tool_calls, stats, stats0, lastOk, clockVars, storeVars>>
    /\ UNCHANGED notTools

\* lines 240-244: as_completed hands over a finished future; result(timeout=30)
\* on a finished future returns at once
CollectTool(i) ==
    /\ tpc = "collect"
    /\ i \in DOMAIN task
    /\ task[i].pc = "done"
    /\ ~task[i].collected
    /\ results' = DictSet(results, tool_calls[i].tool, task[i].ret)
    /\ task' = [task EXCEPT ![i] = [@ EXCEPT !.collected = TRUE]]
    /\ UNCHANGED <<tool_calls, tpc, stats, stats0, lastOk, clockVars, storeVars>>
    /\ UNCHANGED notTools

\* lines 240, 250: as_completed is exhausted only when every future has finished;
\* the with block then joins the pool and the map is returned
ToolsReturn ==
    /\ tpc = "collect"
    /\ \A i \in DOMAIN task : task[i].collected
    /\ tpc' = "returned"
    /\ UNCHANGED <<tool_calls, task, results, stats, stats0, lastOk, clockVars, storeVars>>
    /\ UNCHANGED notTools

\* time passes while the assistant is idle or a dispatch is running
ToolTick ==
    /\ sys = "tools"
    /\ tpc # "returned"
    /\ Tick(ToolTickStep, MaxToolTicks)
    /\ UNCHANGED <<toolVars, storeVars>>
    /\ UNCHANGED notTools


(***************************************************************************)
(* AgentManager: query_agent, query_multiple_agents, _log_interaction      *)
(***************************************************************************)
\* ---- bounds ----
MaxRequests == 2
MaxQueries == 2

\* ---- program constants ----
HistoryCap == 100

\* AgentManager.agents (a part of it) and a name that is not registered
Agents == {"news", "market_data"}
UnknownAgent == "bogus"

NoBatch == [execution_type |-> "none", agents_queried |-> 0, successful_queries |-> 0,
            results |-> EmptyDict]
NewQuery == [pc |-> "queued", out |-> "none", invoked |-> 0, logged |-> 0,
             collected |-> FALSE, tmp |-> <<>>]

\* the interaction dict of lines 345-351; n is the ordinal of the record call
Interaction(a, ok, n) == [agent_type |-> a, success |-> ok, n |-> n]

\* the history earlier record calls left: none, or as many as fill it (nearly)
StartLens == {0, HistoryCap - 1, HistoryCap}
EarlierHistory(h) == [j \in 1..h |-> Interaction("news", TRUE, j)]

\* lines 355-356: "if len > 100: history[-100:]"
Trimmed_first(h) ==
    IF Len(h) > HistoryCap THEN SubSeq(h, 1, HistoryCap) ELSE h
Trimmed(h) ==
    IF Len(h) > HistoryCap THEN SubSeq(h, Len(h) - HistoryCap + 1, Len(h)) ELSE h

\* a request list one longer than the widest pool the assistant makes
WideRequests == [i \in 1..(MaxWorkers + 1) |-> "news"]

InitAgents ==
    /\ requests \in IF sys = "agents"
                     THEN UNION {[1..m -> Agents \cup {UnknownAgent}] : m \in 0..MaxRequests}
                              \cup {WideRequests}
                     ELSE {<<>>}
    /\ failing \in IF sys = "agents" /\ requests # WideRequests THEN SUBSET Agents ELSE {{}}
    /\ apc = "idle"
    /\ parallel = FALSE
    /\ atask = <<>>
    /\ aresults = EmptyDict
    /\ batch = NoBatch
    /\ lastBatch = [m \in BOOLEAN |-> [status |-> "none", batch |-> NoBatch]]
    /\ nrecords \in IF sys = "agents" /\ requests # WideRequests THEN StartLens
                     ELSE IF sys = "session" THEN {0, HistoryCap} ELSE {0}
    /\ session_history = EarlierHistory(nrecords)
    /\ nqueries = 0

\* line 49: "if agent_type not in self.agents"
IsRegistered_any(a) == TRUE
IsRegistered(a) == a \in Agents

\* lines 49-66: what query_agent returns.  An unknown name gets the "Unknown agent
\* type" dict; an exception of process_request is caught and becomes an error dict
QueryAgentResponse(a, fails) ==
    IF ~IsRegistered(a) THEN "unknown_agent"
    ELSE IF a \notin Agents \/ a \in fails THEN "agent_failed"
    ELSE "ok"

\* lines 111, 132, 350: '"error" not in r'
IsSuccess(r) == r = "ok"

\* lines 97-98: the slot a finished future is stored under
SlotOf_lastRequest(i) == requests[Len(requests)]
SlotOf(i) == requests[i]

\* lines 108-114 and 129-135: the dict a dispatch returns
SuccessCount(res) == Cardinality({k \in DOMAIN res : IsSuccess(res[k])})
BatchOf(mode, res) ==
    [execution_type |-> IF mode THEN "parallel" ELSE "sequential",
     agents_queried |-> Len(requests),
     successful_queries |-> SuccessCount(res),
     results |-> res]

\* query_multiple_agents, lines 75-93 and 118: in parallel mode the pool is made
\* with max_workers=len(requests), which raises ValueError for an empty list;
\* otherwise every request is submitted.  In sequential mode the loop begins
QueryMultipleAgents(mode) ==
    /\ sys = "agents"
    /\ apc \in {"idle", "returned", "raised"}
    /\ nqueries < MaxQueries
    /\ nqueries' = nqueries + 1
    /\ parallel' = mode
    /\ aresults' = EmptyDict
    /\ IF mode /\ Len(requests) = 0
       THEN /\ apc' = "raised"
            /\ atask' = <<>>
            /\ lastBatch' = [lastBatch EXCEPT ![mode] = [status |-> "raised", batch |-> NoBatch]]
       ELSE /\ apc' = IF mode THEN "collect" ELSE "seq"
            /\ atask' = [i \in 1..Len(requests) |-> NewQuery]
            /\ UNCHANGED lastBatch
    /\ UNCHANGED <<requests, failing, batch, session_history, nrecords>>
    /\ UNCHANGED notAgents

\* the calls that may begin: all of them in a pool as wide as the list, the next one
\* of the loop in sequential mode
MayBegin_pool(i) == apc \in {"collect", "seq"}
MayBegin(i) ==
    IF parallel THEN apc = "collect"
    ELSE apc = "seq" /\ \A j \in 1..(i-1) : atask[j].collected

\* query_agent, lines 49-56 and 59-64: the registry test, then process_request
QueryAgent(i) ==
    /\ i \in DOMAIN atask
    /\ atask[i].pc = "queued"
    /\ MayBegin(i)
    /\ LET r == QueryAgentResponse(requests[i], failing)
       IN atask' = [atask EXCEPT ![i] =
              [@ EXCEPT !.out = r,
                        !.invoked = IF IsRegistered(requests[i]) THEN @ + 1 ELSE @,
                        !.pc = IF IsRegistered(requests[i]) THEN "log" ELSE "done"]]
    /\ UNCHANGED <<requests, failing, apc, parallel, aresults, batch, lastBatch,
                   session_history, nqueries, nrecords>>
    /\ UNCHANGED notAgents

\* _log_interaction, lines 345-352: the record is appended
LogAppend(i) ==
    /\ i \in DOMAIN atask
    /\ atask[i].pc = "log"
    /\ session_history' = Append(session_history,
            Interaction(requests[i], IsSuccess(atask[i].out), nrecords + 1))
    /\ nrecords' = nrecords + 1
    /\ atask' = [atask EXCEPT ![i] = [@ EXCEPT !.pc = "trim", !.logged = @ + 1]]
    /\ UNCHANGED <<requests, failing, apc, parallel, aresults, batch, lastBatch, nqueries>>
    /\ UNCHANGED notAgents

\* _log_interaction, lines 355-356: the length test and the slice
\* self.session_history[-100:] are evaluated; when the history is not over its
\* capacity query_agent returns (lines 58, 66)
LogTrim(i) ==
    /\ i \in DOMAIN atask
    /\ atask[i].pc = "trim"
    /\ atask' = [atask EXCEPT ![i] =
          IF Len(session_history) > HistoryCap
          THEN [@ EXCEPT !.pc = "store", !.tmp = Trimmed(session_history)]
          ELSE [@ EXCEPT !.pc = "done"]]
    /\ UNCHANGED <<requests, failing, apc, parallel, aresults, batch, lastBatch,
                   session_history, nqueries, nrecords>>
    /\ UNCHANGED notAgents

\* _log_interaction, line 356: the slice is assigned to self.session_history, then
\* query_agent returns
LogStore(i) ==
    /\ i \in DOMAIN atask
    /\ atask[i].pc = "store"
    /\ session_history' = atask[i].tmp
    /\ atask' = [atask EXCEPT ![i] = [@ EXCEPT !.pc = "done", !.tmp = <<>>]]
    /\ UNCHANGED <<requests, failing, apc, parallel, aresults, batch, lastBatch,
                   nqueries, nrecords>>
    /\ UNCHANGED notAgents

\* lines 96-101 (as_completed hands over a finished future) and line 127 (the
\* loop stores the call's result): results[agent_type] = result
StoreResult(i) ==
    /\ apc \in {"collect", "seq"}
    /\ i \in DOMAIN atask
    /\ atask[i].pc = "done"
    /\ ~atask[i].collected
    /\ aresults' = DictSet(aresults, SlotOf(i), atask[i].out)
    /\ atask' = [atask EXCEPT ![i] = [@ EXCEPT !.collected = TRUE]]
    /\ UNCHANGED <<requests, failing, apc, parallel, batch, lastBatch, session_history,
                   nqueries, nrecords>>
    /\ UNCHANGED notAgents

\* lines 108-114 and 129-135: every future is in, or the loop is over
AgentsReturn ==
    /\ apc \in {"collect", "seq"}
    /\ \A i \in DOMAIN atask : atask[i].collected
    /\ batch' = BatchOf(parallel, aresults)
    /\ lastBatch' = [lastBatch EXCEPT ![parallel] =
                        [status |-> "returned", batch |-> BatchOf(parallel, aresults)]]
    /\ apc' = "returned"
    /\ UNCHANGED <<requests, failing, parallel, atask, aresults, session_history, nqueries,
                   nrecords>>
    /\ UNCHANGED notAgents


(***************************************************************************)
(* AgentToolRegistry.call_tool                                             *)
(***************************************************************************)
\* ---- bounds ----
MaxToolCalls == 3

\* what the tool's function does when it is called: it hands back a result, or
\* it raises an exception (a subclass of Exception) with a message
HandleBehaviours ==
    {[raises |-> FALSE, val |-> p] : p \in Payloads}
        \cup {[raises |-> TRUE, val |-> "boom"]}

InitRegistry ==
    /\ registry = Tools
    /\ regLog = <<>>

\* line 123: "except Exception as e" around the call of the tool's function
Catches_nothing(h) == FALSE
Catches(h) == h.raises

\* call_tool, lines 105-129.  keys are the keys of the dict handed back; ran says
\* whether the tool's function was called; raised, whether call_tool raised
CallToolResult(name, h, reg) ==
    IF name \notin reg
    THEN [raised |-> FALSE, ran |-> FALSE,
          keys |-> {"error", "available_tools"}, success |-> FALSE,
          error |-> <<"not found", name>>, available_tools |-> reg, result |-> ""]
    ELSE IF ~h.raises
    THEN [raised |-> FALSE, ran |-> TRUE,
          keys |-> {"tool_name", "agent_type", "success", "result", "timestamp"},
          success |-> TRUE, error |-> <<>>, available_tools |-> {}, result |-> h.val]
    ELSE IF Catches(h)
    THEN [raised |-> FALSE, ran |-> TRUE,
          keys |-> {"tool_name", "success", "error", "timestamp"},
          success |-> FALSE, error |-> <<h.val>>, available_tools |-> {}, result |-> ""]
    ELSE [raised |-> TRUE, ran |-> TRUE, keys |-> {}, success |-> FALSE,
          error |-> <<h.val>>, available_tools |-> {}, result |-> ""]

CallTool(name, h) ==
    /\ sys = "registry"
    /\ Len(regLog) < MaxToolCalls
    /\ regLog' = Append(regLog, [name |-> name, handle |-> h, before |-> registry,
                                 out |-> CallToolResult(name, h, registry)])
    /\ UNCHANGED registry
    /\ UNCHANGED notRegistry


(***************************************************************************)
(* AgentManager: get_session_stats, reset_session                          *)
(***************************************************************************)
\* ---- bounds ----
MaxRecordCalls == 3
MaxSessionCalls == 3

\* line 360: "if not self.session_history"
IsEmptyHistory_never(h) == FALSE
IsEmptyHistory(h) == h = <<>>

\* lines 366-369: agent_usage, a dict whose keys are in the order the agents are
\* first met in the history
AgentUsage(h) ==
    [a \in {h[j].agent_type : j \in DOMAIN h} |->
        Cardinality({j \in DOMAIN h : h[j].agent_type = a})]
FirstAt(h, a) ==
    CHOOSE j \in DOMAIN h :
        h[j].agent_type = a /\ \A k \in 1..(j-1) : h[k].agent_type # a

\* line 376: max(agent_usage, key=agent_usage.get), the first key of maximal count
MostUsed(h) ==
    LET usage == AgentUsage(h)
    IN CHOOSE a \in DOMAIN usage :
          \A b \in DOMAIN usage :
              \/ usage[b] < usage[a]
              \/ usage[b] = usage[a] /\ FirstAt(h, a) <= FirstAt(h, b)

NoData == [kind |-> "no_data", total_interactions |-> 0, successful_interactions |-> 0,
           success_rate |-> <<0, 1>>, agent_usage |-> EmptyDict, most_used_agent |-> ""]

\* get_session_stats, lines 360-379.  success_rate is kept as the pair
\* <<dividend, divisor>> of the division of line 374, which raises
\* ZeroDivisionError when the divisor is 0
SessionStats(h) ==
    IF IsEmptyHistory(h) THEN NoData
    ELSE IF Len(h) = 0 THEN [NoData EXCEPT !.kind = "ZeroDivisionError"]
    ELSE [kind |-> "stats",
          total_interactions |-> Len(h),
          successful_interactions |-> Cardinality({j \in DOMAIN h : h[j].success}),
          success_rate |-> <<Cardinality({j \in DOMAIN h : h[j].success}), Len(h)>>,
          agent_usage |-> AgentUsage(h),
          most_used_agent |-> MostUsed(h)]

\* _log_interaction, lines 345-356, called on its own: append, then trim
LogInteraction(a, ok) ==
    /\ sys = "session"
    /\ nrecords % HistoryCap < MaxRecordCalls
    /\ session_history' = Trimmed(Append(session_history, Interaction(a, ok, nrecords + 1)))
    /\ nrecords' = nrecords + 1
    /\ UNCHANGED statsLog
    /\ UNCHANGED notSession

GetSessionStats ==
    /\ sys = "session"
    /\ Len(statsLog) < MaxSessionCalls
    /\ statsLog' = Append(statsLog, [op |-> "stats", at |-> nrecords, seen |-> session_history,
                                     ret |-> SessionStats(session_history)])
    /\ UNCHANGED <<session_history, nrecords>>
    /\ UNCHANGED notSession

\* reset_session, line 383
ResetSession ==
    /\ sys = "session"
    /\ Len(statsLog) < MaxSessionCalls
    /\ session_history' = <<>>
    /\ statsLog' = Append(statsLog, [op |-> "reset", at |-> nrecords, seen |-> session_history,
                                     ret |-> NoData])
    /\ UNCHANGED nrecords
    /\ UNCHANGED notSession


(***************************************************************************)
(* SmartToolSelector.select_tools                                          *)
(***************************************************************************)
\* ---- bounds ----
MaxSelects == 3

\* a string is the sequence of its characters.  TOOL_KEYWORDS (lines 105-113, a
\* part of it, in the dict's order) and DEFAULT_TOOLS (line 115)
TOOL_KEYWORDS ==
    << [tool |-> "check_market_news",
        keywords |-> <<<<"n", "e", "w", "s">>,
                       <<"h", "e", "a", "d", "l", "i", "n", "e", "s">>,
                       <<"a", "n", "n", "o", "u", "n", "c", "e", "m", "e", "n", "t">>>>],
       [tool |-> "get_market_data",
        keywords |-> <<<<"p", "r", "i", "c", "e">>,
                       <<"d", "a", "t", "a">>,
                       <<"t", "e", "c", "h", "n", "i", "c", "a", "l">>,
                       <<"c", "h", "a", "r", "t">>>>],
       [tool |-> "detect_trading_patterns",
        keywords |-> <<<<"p", "a", "t", "t", "e", "r", "n">>,
                       <<"p", "s", "y", "c", "h", "o", "l", "o", "g", "y">>,
                       <<"b", "i", "a", "s">>,
                       <<"f", "o", "m", "o">>>>],
       [tool |-> "check_market_conditions",
        keywords |-> <<<<"m", "a", "r", "k", "e", "t">>,
                       <<"c", "o", "n", "d", "i", "t", "i", "o", "n">>,
                       <<"t", "r", "e", "n", "d">>>>] >>
DEFAULT_TOOLS == <<"check_market_conditions", "detect_trading_patterns">>

\* the queries select_tools is called with
Queries ==
    { <<>>,
      <<"L", "a", "t", "e", "s", "t", " ", "N", "E", "W", "S">>,
      <<"p", "r", "i", "c", "e", " ", "c", "h", "a", "r", "t">>,
      <<"m", "a", "r", "k", "e", "t", " ", "n", "e", "w", "s", " ", "a", "n", "d", " ", "p", "r", "i", "c", "e">>,
      <<"h", "e", "l", "l", "o">>,
      <<"f", "o", "m", "o", " ", "t", "r", "e", "n", "d">> }

\* str.lower(), line 118
UpperChars == <<"A", "B", "C", "D", "E", "F", "G", "H", "I", "J", "K", "L", "M", "N", "O", "P", "Q", "R", "S", "T", "U", "V", "W", "X", "Y", "Z">>
LowerChars == <<"a", "b", "c", "d", "e", "f", "g", "h", "i", "j", "k", "l", "m", "n", "o", "p", "q", "r", "s", "t", "u", "v", "w", "x", "y", "z">>
Lower(c) ==
    IF \E i \in DOMAIN UpperChars : UpperChars[i] = c
    THEN LowerChars[CHOOSE i \in DOMAIN UpperChars : UpperChars[i] = c]
    ELSE c
LowerStr(q) == [i \in DOMAIN q |-> Lower(q[i])]

\* "keyword in query_lower", line 122: the keyword is a substring of the text
Contains(text, keyword) ==
    \E i \in 0..(Len(text) - Len(keyword)) :
        SubSeq(text, i + 1, i + Len(keyword)) = keyword

\* lines 121-123: the tools with a keyword in the lowercased query
Matching(q) ==
    {TOOL_KEYWORDS[k].tool : k \in
        {k \in DOMAIN TOOL_KEYWORDS :
            \E j \in DOMAIN TOOL_KEYWORDS[k].keywords :
                Contains(LowerStr(q), TOOL_KEYWORDS[k].keywords[j])}}

\* the orders list(set) can put the tool names in: the order is that of the
\* names' hashes, which the process's hash seed fixes for the whole run
RECURSIVE Perms(_)
Perms(S) ==
    IF S = {} THEN {<<>>}
    ELSE UNION {{<<x>> \o p : p \in Perms(S \ {x})} : x \in S}
HashSeeds == Perms({TOOL_KEYWORDS[k].tool : k \in DOMAIN TOOL_KEYWORDS})

\* list(selected_tools), line 128
RECURSIVE ListOfSet(_, _)
ListOfSet(S, seed) ==
    IF seed = <<>> THEN <<>>
    ELSE (IF Head(seed) \in S THEN <<Head(seed)>> ELSE <<>>) \o ListOfSet(S, Tail(seed))

\* line 119: "selected_tools = set()", a new set at every call
NewSelection_kept ==
    UNION {{selLog[n].ret[j] : j \in DOMAIN selLog[n].ret} : n \in DOMAIN selLog}
NewSelection == {}

\* line 125: "if not selected_tools"
NoSelection_never(S) == FALSE
NoSelection(S) == S = {}

\* select_tools, lines 117-128
SelectToolsResult(q, seed) ==
    LET selected == NewSelection \cup Matching(q)
    IN ListOfSet(IF NoSelection(selected)
                 THEN selected \cup {DEFAULT_TOOLS[j] : j \in DOMAIN DEFAULT_TOOLS}
                 ELSE selected,
                 seed)

InitSelector ==
    /\ hashSeed \in IF sys = "selector" THEN HashSeeds ELSE {<<>>}
    /\ selLog = <<>>

SelectTools(q) ==
    /\ sys = "selector"
    /\ Len(selLog) < MaxSelects
    /\ selLog' = Append(selLog, [query |-> q, ret |-> SelectToolsResult(q, hashSeed)])
    /\ UNCHANGED hashSeed
    /\ UNCHANGED notSelector


(***************************************************************************)
(* The summaries: overall_sentiment                                        *)
(***************************************************************************)
\* ---- bounds ----
MaxSymbols == 2
MaxSummaries == 1

\* ---- program constants, in hundredths ----
\* agent_manager.py lines 201 and 203: 0.3
ManagerThreshold == 30
\* comprehensive_analysis_agent.py lines 224 and 226: 0.2
ComprehensiveThreshold == 20
\* tool_integration.py lines 360 and 362: 0.2
SmartAgentThreshold == 20

\* composite_sentiment values, in hundredths (sentiment_agent.py rounds them to
\* two decimals)
ScoreChoices == {-40, -30, -25, 0, 25, 30, 40}

\* what the batch holds for the sentiment capability: nothing, an error entry, or
\* a successful payload with the composite_sentiment of each symbol
SentimentEntries ==
    {[present |-> FALSE, ok |-> FALSE, scores |-> <<>>],
     [present |-> TRUE, ok |-> FALSE, scores |-> <<>>]}
        \cup {[present |-> TRUE, ok |-> TRUE, scores |-> sc] :
                sc \in UNION {[1..m -> ScoreChoices] : m \in 0..MaxSymbols}}

RECURSIVE SumSeq(_)
SumSeq(sq) == IF sq = <<>> THEN 0 ELSE Head(sq) + SumSeq(Tail(sq))

\* "avg = sum(x) / len(x); if avg > t: bullish; elif avg < -t: bearish", with the
\* mean compared exactly: sum / len > t / 100 is sum * 100 > t * len for scores
\* and t in hundredths
Classify(scores, t) ==
    IF scores = <<>> THEN "neutral"
    ELSE IF SumSeq(scores) > t * Len(scores) THEN "bullish"
    ELSE IF SumSeq(scores) < (0 - t) * Len(scores) THEN "bearish"
    ELSE "neutral"

\* the values that enter the mean: those of a payload that is there and is not
\* an error (agent_manager.py line 193, comprehensive_analysis_agent.py line 212,
\* tool_integration.py line 343)
SentimentSignals(e) == IF e.present /\ e.ok THEN e.scores ELSE <<>>

\* AgentManager._synthesize_analysis, lines 191-204
SynthesisSentiment(e) == Classify(SentimentSignals(e), ManagerThreshold)
\* ComprehensiveAnalysisAgent._generate_comprehensive_summary, lines 204-227
ComprehensiveSentiment(e) == Classify(SentimentSignals(e), ComprehensiveThreshold)
\* SmartTradingAgent._generate_analysis_summary, lines 342-363
AnalysisSummarySentiment(e) == Classify(SentimentSignals(e), SmartAgentThreshold)

SynthesizeAnalysis(e) ==
    /\ sys = "summary"
    /\ Len(sentLog) < MaxSummaries
    /\ sentLog' = Append(sentLog, [fn |-> "_synthesize_analysis", input |-> e,
                                   overall_sentiment |-> SynthesisSentiment(e)])
    /\ UNCHANGED notSummary

GenerateComprehensiveSummary(e) ==
    /\ sys = "summary"
    /\ Len(sentLog) < MaxSummaries
    /\ sentLog' = Append(sentLog, [fn |-> "_generate_comprehensive_summary", input |-> e,
                                   overall_sentiment |-> ComprehensiveSentiment(e)])
    /\ UNCHANGED notSummary

GenerateAnalysisSummary(e) ==
    /\ sys = "summary"
    /\ Len(sentLog) < MaxSummaries
    /\ sentLog' = Append(sentLog, [fn |-> "_generate_analysis_summary", input |-> e,
                                   overall_sentiment |-> AnalysisSummarySentiment(e)])
    /\ UNCHANGED notSummary

(***************************************************************************)
(* The summaries: confidence                                               *)
(***************************************************************************)
\* ---- bounds ----
MaxAnalyses == 5

\* ---- program constants, in tenths ----
\* comprehensive_analysis_agent.py line 241: 0.8
HighRate == 8
\* comprehensive_analysis_agent.py line 243: 0.6
MediumRate == 6

\* a batch of analyses: for each agent asked, whether its entry is a success
AnalysisBatches == UNION {[1..m -> BOOLEAN] : m \in 0..MaxAnalyses}
SuccessfulAnalyses(b) == {i \in DOMAIN b : b[i]}

\* lines 206-208: "if not successful_analyses: ... return summary"
NoneSucceeded(b) == SuccessfulAnalyses(b) = {}

\* _generate_comprehensive_summary, lines 196-202, 206-208 and 240-246: the summary
\* starts with confidence "medium" and is returned as it is when no analysis
\* succeeded; otherwise success_rate = len(successful) / len(all) decides
\* (s / t >= r / 10 is s * 10 >= r * t)
ComprehensiveConfidence(b) ==
    IF NoneSucceeded(b) THEN "medium"
    ELSE LET s == Cardinality(SuccessfulAnalyses(b))
             t == Len(b)
         IN IF s * 10 >= HighRate * t THEN "high"
            ELSE IF s * 10 >= MediumRate * t THEN "medium"
            ELSE "low"

\* _synthesize_analysis, line 184: confidence_level is set to "medium" and no line
\* of the function assigns it again
SynthesisConfidence(b) == "medium"

\* ComprehensiveAnalysisAgent._generate_comprehensive_summary on a batch
RateComprehensiveSummary(b) ==
    /\ sys = "confidence"
    /\ Len(sentLog) < MaxSummaries
    /\ sentLog' = Append(sentLog, [fn |-> "_generate_comprehensive_summary", input |-> b,
                                   confidence |-> ComprehensiveConfidence(b)])
    /\ UNCHANGED notSummary

\* AgentManager._synthesize_analysis on a batch
RateSynthesis(b) ==
    /\ sys = "confidence"
    /\ Len(sentLog) < MaxSummaries
    /\ sentLog' = Append(sentLog, [fn |-> "_synthesize_analysis", input |-> b,
                                   confidence |-> SynthesisConfidence(b)])
    /\ UNCHANGED notSummary

(***************************************************************************)
(* AgentManager._synthesize_analysis: trading signals                      *)
(***************************************************************************)
\* ---- program constants, in hundredths ----
\* agent_manager.py line 233: 0.5
StartConfidence == 50
\* lines 240, 247 and 250: 0.2
ConfidenceStep == 20
\* lines 246 and 249: 0.3
SignalThreshold == 30
\* line 252: 1.0
ConfidenceCap == 100

\* what the batch holds for one symbol: the technical recommendation of the
\* market_data analysis (market_data_agent.py line 154), or "none" when the
\* analysis has no entry for the symbol; and its composite_sentiment, if any
SymbolBatches ==
    LET inputs == [tech : {"none", "BUY", "SELL", "HOLD"},
                   sent : {[has |-> FALSE, score |-> 0]}
                              \cup {[has |-> TRUE, score |-> v] : v \in ScoreChoices}]
    IN UNION {[1..m -> inputs] : m \in 0..MaxSymbols}

\* lines 236-240
AfterTechnical(g, tech) ==
    IF tech = "none" THEN g
    ELSE [signal |-> tech, confidence |-> g.confidence + ConfidenceStep]

\* lines 242-250
AfterSentiment(g, sent) ==
    IF ~sent.has THEN g
    ELSE IF sent.score > SignalThreshold /\ g.signal # "SELL"
    THEN [signal |-> "BUY", confidence |-> g.confidence + ConfidenceStep]
    ELSE IF sent.score < 0 - SignalThreshold
    THEN [signal |-> "SELL", confidence |-> g.confidence + ConfidenceStep]
    ELSE g

\* lines 232-253, for one symbol: the signal starts at HOLD (line 233), takes the
\* two steps and has its confidence capped (line 252)
TradingSignal(x) ==
    LET start == [signal |-> "HOLD", confidence |-> StartConfidence]
        g == AfterSentiment(AfterTechnical(start, x.tech), x.sent)
    IN [g EXCEPT !.confidence = Min(@, ConfidenceCap)]

\* lines 231-253: the loop over the symbols
GenerateTradingSignals(xs) ==
    /\ sys = "signals"
    /\ Len(sentLog) < MaxSummaries
    /\ sentLog' = Append(sentLog,
            [fn |-> "_synthesize_analysis", input |-> xs,
             trading_signals |-> [i \in DOMAIN xs |-> TradingSignal(xs[i])]])
    /\ UNCHANGED notSummary

(***************************************************************************)
(* The summaries: recommendations                                          *)
(***************************************************************************)
\* ---- bounds ----
MaxPayloads == 3
MaxRecs == 3

\* ---- program constants ----
\* comprehensive_analysis_agent.py line 233: recommendations[:2]
PerAgentRecs == 2
\* agent_manager.py line 269: recommendations[:5]
SynthesisRecs == 5

\* analysis_results; of each entry: whether it is a success, and the
\* recommendations field of its result
RecBatches ==
    LET lists == UNION {[1..m -> {"Buy the dip", "Set stop losses"}] : m \in 0..MaxRecs}
    IN UNION {[1..m -> [success : BOOLEAN, recs : lists]] : m \in 0..MaxPayloads}

\* sq[:n]
Prefix(sq, n) == SubSeq(sq, 1, Min(Len(sq), n))

\* _generate_comprehensive_summary, lines 210-213 and 229-233: every successful
\* entry, in the dict's order, extends the list by its first two recommendations
RECURSIVE ComprehensiveRecommendations(_)
ComprehensiveRecommendations(b) ==
    IF b = <<>> THEN <<>>
    ELSE (IF Head(b).success THEN Prefix(Head(b).recs, PerAgentRecs) ELSE <<>>)
             \o ComprehensiveRecommendations(Tail(b))

\* _synthesize_analysis, lines 255-269: a line for the overall sentiment, three
\* fixed lines, cut to five; the payloads' recommendations are not read here
SynthesisRecommendations(b, overall) ==
    Prefix((IF overall = "bullish"
            THEN <<"Market sentiment is positive - consider increasing exposure to growth stocks">>
            ELSE IF overall = "bearish"
            THEN <<"Market sentiment is negative - consider defensive positioning">>
            ELSE <<>>)
           \o <<"Monitor news flow for any significant developments",
                "Use appropriate position sizing based on risk tolerance",
                "Set stop losses to manage downside risk">>,
           SynthesisRecs)

\* ComprehensiveAnalysisAgent._generate_comprehensive_summary on some batch
RecommendComprehensive ==
    /\ sys = "recommendations"
    /\ Len(sentLog) < MaxSummaries
    /\ \E b \in RecBatches :
          sentLog' = Append(sentLog,
              [fn |-> "_generate_comprehensive_summary", input |-> b,
               recommendations |-> ComprehensiveRecommendations(b)])
    /\ UNCHANGED notSummary

\* AgentManager._synthesize_analysis on some batch, its overall sentiment being o
RecommendSynthesis ==
    /\ sys = "recommendations"
    /\ Len(sentLog) < MaxSummaries
    /\ \E b \in RecBatches, o \in {"neutral", "bullish", "bearish"} :
          sentLog' = Append(sentLog,
              [fn |-> "_synthesize_analysis", input |-> b,
               recommendations |-> SynthesisRecommendations(b, o)])
    /\ UNCHANGED notSummary

(***************************************************************************)
(* Specifications                                                          *)
(***************************************************************************)
InitAll ==
    /\ InitCache /\ InitStore /\ InitTools /\ InitAgents
    /\ InitRegistry /\ InitSelector
    /\ statsLog = <<>>
    /\ sentLog = <<>>
InitOnlyRegistry == sys = "registry" /\ InitAll
InitOnlySession == sys = "session" /\ InitAll
InitOnlySelector == sys = "selector" /\ InitAll
InitOnlySummary == sys = "summary" /\ InitAll
InitOnlyConfidence == sys = "confidence" /\ InitAll
InitOnlySignals == sys = "signals" /\ InitAll
InitOnlyRecommendations == sys = "recommendations" /\ InitAll
InitOnlyCache == sys = "cache" /\ InitAll
InitOnlyTools == sys = "tools" /\ InitAll
InitOnlyAgents == sys = "agents" /\ InitAll
Init == sys \in {"tools", "agents"} /\ InitAll

NextCache ==
    \/ CacheTickStep
    \/ \E t \in Workers, k \in Keys : GetCall(t, k)
    \/ \E t \in Workers : GetEnter(t)
    \/ \E t \in Workers : GetCheckIn(t)
    \/ \E t \in Workers : GetCheckTTL(t)
    \/ \E t \in Workers : GetEvictValue(t)
    \/ \E t \in Workers : GetEvictStamp(t)
    \/ \E t \in Workers : GetHit(t)
    \/ \E t \in Workers, k \in Keys, v \in CacheValues : SetCall(t, k, v)
    \/ \E t \in Workers : SetEnter(t)
    \/ \E t \in Workers : SetValue(t)
    \/ \E t \in Workers : SetStamp(t)

NextTools ==
    \/ ToolTick
    \/ \E calls \in Batches(MaxCalls) : ExecuteToolsParallel(calls)
    \/ \E i \in 1..(MaxCalls + 1) : ToolGet(i)
    \/ \E i \in 1..(MaxCalls + 1) : ToolHitStore(i)
    \/ \E i \in 1..(MaxCalls + 1), ok \in BOOLEAN, p \in Payloads : ToolCallReturns(i, ok, p)
    \/ \E i \in 1..(MaxCalls + 1) : ToolCalledStore(i)
    \/ SingleReturn
    \/ \E i \in 1..(MaxCalls + 1) : CollectTool(i)
    \/ ToolsReturn

NextAgents ==
    \/ \E mode \in BOOLEAN : QueryMultipleAgents(mode)
    \/ \E i \in 1..(MaxRequests + MaxWorkers + 1) : QueryAgent(i)
    \/ \E i \in 1..(MaxRequests + MaxWorkers + 1) : LogAppend(i)
    \/ \E i \in 1..(MaxRequests + MaxWorkers + 1) : LogTrim(i)
    \/ \E i \in 1..(MaxRequests + MaxWorkers + 1) : LogStore(i)
    \/ \E i \in 1..(MaxRequests + MaxWorkers + 1) : StoreResult(i)
    \/ AgentsReturn

NextRegistry ==
    \E name \in Tools \cup {UnknownTool}, h \in HandleBehaviours : CallTool(name, h)

NextSession ==
    \/ \E a \in Agents, ok \in BOOLEAN : LogInteraction(a, ok)
    \/ GetSessionStats
    \/ ResetSession

NextSelector == \E q \in Queries : SelectTools(q)

NextSummary ==
    \/ \E e \in SentimentEntries : SynthesizeAnalysis(e)
    \/ \E e \in SentimentEntries : GenerateComprehensiveSummary(e)
    \/ \E e \in SentimentEntries : GenerateAnalysisSummary(e)

NextConfidence ==
    \/ \E b \in AnalysisBatches : RateComprehensiveSummary(b)
    \/ \E b \in AnalysisBatches : RateSynthesis(b)

NextSignals == \E xs \in SymbolBatches : GenerateTradingSignals(xs)

NextRecommendations ==
    \/ RecommendComprehensive
    \/ RecommendSynthesis

Next == NextTools \/ NextAgents

SpecCache == InitOnlyCache /\ [][NextCache]_vars
SpecTools == InitOnlyTools /\ [][NextTools]_vars
SpecAgents == InitOnlyAgents /\ [][NextAgents]_vars
SpecRegistry == InitOnlyRegistry /\ [][NextRegistry]_vars
SpecSession == InitOnlySession /\ [][NextSession]_vars
SpecSelector == InitOnlySelector /\ [][NextSelector]_vars
SpecSummary == InitOnlySummary /\ [][NextSummary]_vars
SpecConfidence == InitOnlyConfidence /\ [][NextConfidence]_vars
SpecSignals == InitOnlySignals /\ [][NextSignals]_vars
SpecRecommendations == InitOnlyRecommendations /\ [][NextRecommendations]_vars
Spec == Init /\ [][Next]_vars


(***************************************************************************)
(* ToolCache                                                               *)
(***************************************************************************)
InLock == {t \in Workers : cpc[t] \notin {"idle", "g_wait", "s_wait"}}
FinishedGet(t) == cpc[t] = "idle" /\ cres[t].key # ""
Age(t) == cres[t].at - cres[t].latest.at

\* C5  Cache round trip.  A get(k) whose expiry test runs less than TTL after the
\* latest set(k, v) returns v; one whose test runs more than TTL after it returns
\* None and leaves the cache without an entry for k (so later gets are absent too,
\* the clock never going back, until the next set).
CacheRoundTrip ==
    \A t \in Workers :
        (FinishedGet(t) /\ cres[t].latest # NoSet) =>
            /\ Age(t) < TTL => cres[t].ret = cres[t].latest.val
            /\ Age(t) > TTL => (cres[t].ret = PyNone /\ cres[t].evicted)

\* a get answered with the stored value (the falsy "" included) before the TTL ran
\* out, and a later one answered None after it did
CacheRoundTripWitness ==
    \E t1, t2 \in Workers :
        /\ FinishedGet(t1) /\ cres[t1].ret = PyStr("") /\ cres[t1].latest.val = PyStr("")
        /\ Age(t1) > 0 /\ Age(t1) < TTL
        /\ FinishedGet(t2) /\ cres[t2].latest # NoSet /\ Age(t2) > TTL
        /\ cres[t2].ret = PyNone /\ cres[t2].evicted

\* C6  get and set are atomic and linearizable per key.  At most one worker is
\* inside the lock; no get ends in a KeyError; every finished get returned the
\* value of the latest set completed before it, or None when there is none or it
\* had expired; and while nobody is inside, every key whose latest set is still
\* fresh is in the cache with that set's value and timestamp, so no expiry test
\* of a get has removed or hidden it.
FreshEntryKept ==
    \A k \in DOMAIN lastSet :
        now - lastSet[k].at <= TTL =>
            /\ k \in DOMAIN cache /\ cache[k] = lastSet[k].val
            /\ k \in DOMAIN timestamps /\ timestamps[k] = lastSet[k].at
CacheLinearizable ==
    /\ Cardinality(InLock) <= 1
    /\ lock = NoThread <=> InLock = {}
    /\ \A t \in Workers :
          FinishedGet(t) =>
              /\ ~cres[t].err
              /\ cres[t].ret = IF cres[t].latest = NoSet \/ Age(t) > TTL
                               THEN PyNone ELSE cres[t].latest.val
    /\ InLock = {} => FreshEntryKept

\* a set(k) waits for the lock while a get(k) that found the entry expired is
\* about to evict it
CacheLinearizableWitness ==
    \E t1, t2 \in Workers :
        /\ cpc[t1] = "g_del" /\ cpc[t2] = "s_wait"
        /\ cop[t1].key = cop[t2].key
        /\ lock = t1


(***************************************************************************)
(* TradingAssistant dispatch                                               *)
(***************************************************************************)
ToolNames == {tool_calls[i].tool : i \in DOMAIN tool_calls}
SameTool(i) == {j \in DOMAIN tool_calls : tool_calls[j].tool = tool_calls[i].tool}
Started(i) == task[i].pc # "queued"

SignatureCanonical ==
    /\ \A i, j \in DOMAIN tool_calls : (SemKey(i) = SemKey(j)) <=> (KeyOf(i) = KeyOf(j))
    /\ \A i \in DOMAIN task : Started(i) => (task[i].semHit <=> task[i].held.has)

\* two requests with the same arguments in different insertion orders: the second
\* is a hit; and a request that differs in one value is not
SignatureCanonicalWitness ==
    /\ tpc = "returned"
    /\ Len(tool_calls) = 2
    /\ tool_calls[1].args # tool_calls[2].args
    /\ SemKey(1) = SemKey(2)
    /\ task[1].ret[1] = "ok"
    /\ task[2].ret[1] = "cached"

\* C4 (as claimed)  When the dispatch has returned, every call whose invocation
\* took longer than the per-task timeout has the outcome Timeout in its slot.
SlowCallTimesOut ==
    tpc = "returned" =>
        \A i \in DOMAIN task :
            task[i].slow => results[tool_calls[i].tool] = <<"timeout", PyNone>>

(***************************************************************************)
(* AgentManager dispatch                                                   *)
(***************************************************************************)
Requested == {requests[i] : i \in DOMAIN requests}
Expected(a) ==
    IF a \notin Agents THEN "unknown_agent"
    ELSE IF a \in failing THEN "agent_failed" ELSE "ok"

\* C1  Parallel dispatch isolates failures.  When a parallel dispatch has
\* returned, every request's call has run to completion and been collected, every
\* registered capability named was invoked exactly once per request (a tool: once,
\* or served from the cache), and the slot of each name holds the outcome of a
\* call made for that name: success for a capability that did not fail, whatever
\* the others did.
AgentsIsolated ==
    (apc = "returned" /\ parallel) =>
        \A i \in DOMAIN requests :
            /\ atask[i].pc = "done" /\ atask[i].collected
            /\ requests[i] \in Agents => atask[i].invoked = 1
            /\ requests[i] \in DOMAIN aresults
            /\ aresults[requests[i]] = Expected(requests[i])
ToolsIsolated ==
    tpc = "returned" =>
        /\ DOMAIN results = ToolNames
        /\ \A i \in DOMAIN tool_calls :
            /\ task[i].pc = "done" /\ task[i].collected
            /\ task[i].invoked = 1 \/ (task[i].invoked = 0 /\ task[i].ret[1] = "cached")
            /\ results[tool_calls[i].tool] \in {task[j].ret : j \in SameTool(i)}
            /\ SameTool(i) = {i} => results[tool_calls[i].tool] = task[i].ret
\* C1  both dispatchers: AgentManager._query_agents_parallel and
\* TradingAssistant._execute_tools_parallel isolate the failures of their calls
ParallelIsolation == AgentsIsolated /\ ToolsIsolated

\* a parallel batch in which one capability raised and another succeeded
ParallelIsolationWitness ==
    /\ apc = "returned" /\ parallel
    /\ \E i, j \in DOMAIN requests :
          /\ requests[i] \in failing /\ aresults[requests[i]] = "agent_failed"
          /\ requests[j] \in Agents \ failing /\ aresults[requests[j]] = "ok"
          /\ atask[j].invoked = 1

\* C2 (as claimed)  No exception propagates out of query_multiple_agents.
DispatchNeverRaises == apc # "raised"

\* C3 (as claimed)  Mode-invariance: once the request list has been dispatched in
\* both modes, both calls returned result maps with the same keys, the same
\* success/failure classification per key and the same two counts.
ModeInvariance ==
    (lastBatch[TRUE].status # "none" /\ lastBatch[FALSE].status # "none") =>
        /\ lastBatch[TRUE].status = "returned" /\ lastBatch[FALSE].status = "returned"
        /\ DOMAIN lastBatch[TRUE].batch.results = DOMAIN lastBatch[FALSE].batch.results
        /\ \A k \in DOMAIN lastBatch[TRUE].batch.results :
              IsSuccess(lastBatch[TRUE].batch.results[k])
                  <=> IsSuccess(lastBatch[FALSE].batch.results[k])
        /\ lastBatch[TRUE].batch.successful_queries
              = lastBatch[FALSE].batch.successful_queries
        /\ lastBatch[TRUE].batch.agents_queried = lastBatch[FALSE].batch.agents_queried

\* C9 (as claimed)  In a returned batch agents_queried is len(requests) and
\* successful_queries is the number of requests whose outcome is Success.
CountsMatchRequests ==
    apc = "returned" =>
        /\ batch.agents_queried = Len(requests)
        /\ batch.successful_queries
              = Cardinality({i \in DOMAIN requests : IsSuccess(atask[i].out)})

\* C10 (as claimed)  A request naming an unregistered capability is rejected
\* before any capability of the batch is dispatched, and gets no slot.
UnknownRejectedBeforeDispatch ==
    (\E i \in DOMAIN requests : requests[i] \notin Agents) =>
        /\ \A j \in DOMAIN atask : atask[j].invoked = 0
        /\ \A k \in DOMAIN aresults : k \in Agents

\* C10 (amended)  The results map of a returned batch has exactly one entry for
\* each distinct requested name, registered or not.  An unregistered name is
\* answered in its own slot with the "Unknown agent type" error, no agent being
\* invoked and nothing being logged for it; every request naming a registered
\* capability is still invoked.
OneEntryPerName ==
    apc = "returned" =>
        /\ DOMAIN batch.results = Requested
        /\ \A i \in DOMAIN requests :
              IF requests[i] \in Agents
              THEN atask[i].invoked = 1 /\ batch.results[requests[i]] # "unknown_agent"
              ELSE /\ atask[i].invoked = 0 /\ atask[i].logged = 0
                   /\ batch.results[requests[i]] = "unknown_agent"

\* a returned batch that named an unregistered capability and a registered one
OneEntryPerNameWitness ==
    /\ apc = "returned"
    /\ \E i, j \in DOMAIN requests :
          /\ requests[i] \notin Agents /\ batch.results[requests[i]] = "unknown_agent"
          /\ requests[j] \in Agents /\ atask[j].invoked = 1
          /\ batch.results[requests[j]] = "ok"

(***************************************************************************)
(* Sequential dispatch and the session history                             *)
(***************************************************************************)
Running == {i \in DOMAIN atask : atask[i].pc \notin {"queued", "done"}}
Recording == {i \in DOMAIN atask : atask[i].pc \in {"trim", "store"}}
SequentialOnly == ~parallel /\ lastBatch[TRUE].status = "none"

\* C11  In sequential mode the capabilities are invoked strictly in request-list
\* order, one at a time: a request's call has begun only when the call of every
\* request before it has reached its outcome, at most one call is in progress,
\* and when the dispatch has returned every request that names a registered
\* capability has been invoked once, whatever the outcomes of the requests
\* before it.
SequentialInOrder ==
    (~parallel /\ apc \in {"seq", "returned"}) =>
        /\ \A i, j \in DOMAIN atask :
              (i < j /\ atask[j].pc # "queued") => atask[i].pc = "done"
        /\ Cardinality(Running) <= 1
        /\ apc = "returned" =>
              \A i \in DOMAIN atask : requests[i] \in Agents => atask[i].invoked = 1

\* a sequential dispatch whose first request ended in an error and whose second
\* request was invoked all the same and succeeded
SequentialInOrderWitness ==
    /\ ~parallel /\ apc = "returned"
    /\ Len(requests) = 2
    /\ atask[1].out = "agent_failed"
    /\ atask[2].invoked = 1 /\ atask[2].out = "ok"

\* C13 (as claimed)  In every reachable state session_history holds at most 100
\* records.
HistoryWithinCapacity == Len(session_history) <= HistoryCap

\* C14  After n record calls made one after the other, session_history is the
\* last min(n, 100) records in record-call order: it has min(n, 100) records and
\* its j-th record is the record of call n - len + j.
LastRecordsInOrder ==
    (SequentialOnly /\ Recording = {}) =>
        /\ Len(session_history) = Min(nrecords, HistoryCap)
        /\ \A j \in 1..Len(session_history) :
              session_history[j].n = nrecords - Len(session_history) + j

\* 102 record calls: records 1 and 2 are gone, records 3..102 are there in order
LastRecordsInOrderWitness ==
    /\ SequentialOnly /\ Recording = {}
    /\ nrecords = HistoryCap + 2
    /\ Len(session_history) = HistoryCap
    /\ session_history[1].n = 3
    /\ session_history[HistoryCap].n = HistoryCap + 2

\* C16 (as claimed)  After a dispatch exactly one session record has been
\* appended for each request of the batch, whatever its outcome.
OneRecordPerRequest ==
    apc = "returned" => \A i \in DOMAIN atask : atask[i].logged = 1

(***************************************************************************)
(* AgentToolRegistry.call_tool                                             *)
(***************************************************************************)
\* C12  call_tool never raises.  For a name that is not registered it hands back
\* a dict with "error" and the list of the available tool names, and the tool's
\* function is not called; for a registered name whose function raises it hands
\* back success False with the exception's message; and the registry's tool set
\* is what it was before the call.
CallToolNeverRaises ==
    /\ registry = Tools
    /\ \A n \in DOMAIN regLog :
          LET c == regLog[n]
          IN /\ ~c.out.raised
             /\ c.before = Tools
             /\ c.name \notin Tools =>
                   /\ ~c.out.ran
                   /\ "error" \in c.out.keys /\ "success" \notin c.out.keys
                   /\ c.out.available_tools = Tools
             /\ (c.name \in Tools /\ c.handle.raises) =>
                   /\ "success" \in c.out.keys /\ c.out.success = FALSE
                   /\ "error" \in c.out.keys /\ c.out.error = <<c.handle.val>>
             /\ (c.name \in Tools /\ ~c.handle.raises) =>
                   c.out.success /\ c.out.result = c.handle.val

\* an unknown name, then a registered tool whose function raised
CallToolNeverRaisesWitness ==
    /\ Len(regLog) >= 2
    /\ regLog[1].name = UnknownTool /\ regLog[1].out.available_tools = Tools
    /\ regLog[2].name \in Tools /\ regLog[2].handle.raises
    /\ regLog[2].out.success = FALSE /\ ~regLog[2].out.raised

(***************************************************************************)
(* AgentManager.get_session_stats                                          *)
(***************************************************************************)
RECURSIVE SumOver(_, _)
SumOver(f, S) ==
    IF S = {} THEN 0
    ELSE LET a == CHOOSE x \in S : TRUE IN f[a] + SumOver(f, S \ {a})

\* C15  get_session_stats never raises; it gives the no-data answer exactly when
\* session_history is empty, which it is before the first record and right after
\* reset_session; otherwise total_interactions is the number of retained
\* records (at least 1), successful_interactions is the number of them that
\* succeeded (at most total_interactions), success_rate is the one divided by
\* the other, agent_usage counts every record under its agent and so sums to
\* total_interactions, and most_used_agent is an agent of maximal count.
SessionStatsSound ==
    \A n \in DOMAIN statsLog :
        LET c == statsLog[n]
            h == c.seen
            r == c.ret
        IN c.op = "stats" =>
            /\ r.kind \in {"no_data", "stats"}
            /\ r.kind = "no_data" <=> h = <<>>
            /\ (n > 1 /\ statsLog[n-1].op = "reset" /\ statsLog[n-1].at = c.at)
                  => r.kind = "no_data"
            /\ c.at = 0 => r.kind = "no_data"
            /\ h # <<>> =>
                  /\ r.total_interactions = Len(h) /\ r.total_interactions >= 1
                  /\ r.total_interactions <= HistoryCap
                  /\ r.successful_interactions
                        = Cardinality({j \in DOMAIN h : h[j].success})
                  /\ r.successful_interactions <= r.total_interactions
                  /\ r.success_rate = <<r.successful_interactions, r.total_interactions>>
                  /\ SumOver(r.agent_usage, DOMAIN r.agent_usage) = r.total_interactions
                  /\ r.most_used_agent \in DOMAIN r.agent_usage
                  /\ \A a \in DOMAIN r.agent_usage :
                        r.agent_usage[a] <= r.agent_usage[r.most_used_agent]

\* statistics of a history with a failure in it, then a reset, then no data
SessionStatsSoundWitness ==
    /\ Len(statsLog) = 3
    /\ statsLog[1].op = "stats" /\ statsLog[1].ret.kind = "stats"
    /\ statsLog[1].ret.successful_interactions < statsLog[1].ret.total_interactions
    /\ statsLog[2].op = "reset" /\ statsLog[2].at = statsLog[3].at
    /\ statsLog[3].op = "stats" /\ statsLog[3].ret.kind = "no_data"

(***************************************************************************)
(* SmartToolSelector.select_tools                                          *)
(***************************************************************************)
Elems(list) == {list[j] : j \in DOMAIN list}
NoRepeat(list) == \A i, j \in DOMAIN list : list[i] = list[j] => i = j
\* the tools of S listed in the order of the keyword table
RECURSIVE TableOrder(_, _)
TableOrder(S, k) ==
    IF k > Len(TOOL_KEYWORDS) THEN <<>>
    ELSE (IF TOOL_KEYWORDS[k].tool \in S THEN <<TOOL_KEYWORDS[k].tool>> ELSE <<>>)
         \o TableOrder(S, k + 1)

\* C17  For every query, the empty one included, select_tools returns a
\* non-empty list; when no keyword of any tool is a substring of the lowercased
\* query, the list holds exactly the tools of DEFAULT_TOOLS, each once.
SelectionNeverEmpty ==
    \A n \in DOMAIN selLog :
        /\ selLog[n].ret # <<>>
        /\ Matching(selLog[n].query) = {} =>
              /\ Elems(selLog[n].ret) = Elems(DEFAULT_TOOLS)
              /\ Len(selLog[n].ret) = Len(DEFAULT_TOOLS)

\* the empty query and a query without any keyword both got the default tools
SelectionNeverEmptyWitness ==
    /\ Len(selLog) >= 2
    /\ selLog[1].query = <<>> /\ Elems(selLog[1].ret) = Elems(DEFAULT_TOOLS)
    /\ selLog[2].query # <<>> /\ Matching(selLog[2].query) = {}
    /\ Elems(selLog[2].ret) = Elems(DEFAULT_TOOLS)

\* C18 (as claimed)  When some keyword matches, select_tools returns exactly the
\* tools that have a keyword in the lowercased query, each once, in the order of
\* the keyword table.
SelectionInTableOrder ==
    \A n \in DOMAIN selLog :
        Matching(selLog[n].query) # {} =>
            selLog[n].ret = TableOrder(Matching(selLog[n].query), 1)

SentimentByMean ==
    \A n \in DOMAIN sentLog :
        LET e == sentLog[n].input
            vals == IF e.present /\ e.ok THEN e.scores ELSE <<>>
        IN sentLog[n].overall_sentiment =
              IF vals = <<>> THEN "neutral"
              ELSE IF SumSeq(vals) > 30 * Len(vals) THEN "bullish"
              ELSE IF SumSeq(vals) < (0 - 30) * Len(vals) THEN "bearish"
              ELSE "neutral"

(***************************************************************************)
(* The summaries: confidence                                               *)
(***************************************************************************)
\* C21 (as claimed)  For every batch with at least one entry the summary's
\* confidence depends on success_ratio = successes / total alone: high iff the
\* ratio is at least 0.8, medium iff it is at least 0.6 and below 0.8, low iff it
\* is below 0.6, for every number of successes from 0 to total.
ConfidenceByRatio ==
    \A n \in DOMAIN sentLog :
        LET b == sentLog[n].input
            s == Cardinality({i \in DOMAIN b : b[i]})
            t == Len(b)
        IN t >= 1 =>
              sentLog[n].confidence =
                  IF s * 10 >= 8 * t THEN "high"
                  ELSE IF s * 10 >= 6 * t THEN "medium"
                  ELSE "low"

(***************************************************************************)
(* AgentManager._synthesize_analysis: trading signals                      *)
(***************************************************************************)
\* C22 (as claimed)  For each symbol the signal starts at HOLD with confidence
\* 0.5; a technical recommendation for the symbol replaces the signal and adds
\* 0.2; a sentiment score above 0.3 overrides the signal to BUY and one below -0.3
\* to SELL, adding 0.2 in either case; confidence is capped at 1.0.  So the signal
\* is BUY, SELL or HOLD and the confidence lies in [0, 1].
SignalByRule ==
    \A n \in DOMAIN sentLog :
        \A i \in DOMAIN sentLog[n].input :
            LET x == sentLog[n].input[i]
                g == sentLog[n].trading_signals[i]
                over == x.sent.has /\ (x.sent.score > 30 \/ x.sent.score < 0 - 30)
                conf == 50 + (IF x.tech # "none" THEN 20 ELSE 0) + (IF over THEN 20 ELSE 0)
            IN /\ g.signal = IF x.sent.has /\ x.sent.score > 30 THEN "BUY"
                             ELSE IF x.sent.has /\ x.sent.score < 0 - 30 THEN "SELL"
                             ELSE IF x.tech # "none" THEN x.tech
                             ELSE "HOLD"
               /\ g.confidence = IF conf > 100 THEN 100 ELSE conf
               /\ g.signal \in {"BUY", "SELL", "HOLD"}
               /\ g.confidence >= 0 /\ g.confidence <= 100

(***************************************************************************)
(* The summaries: recommendations                                          *)
(***************************************************************************)
RECURSIVE AllRecs(_)
AllRecs(b) ==
    IF b = <<>> THEN <<>>
    ELSE (IF Head(b).success THEN Head(b).recs ELSE <<>>) \o AllRecs(Tail(b))
FirstSeen(sq) ==
    SelectSeq([i \in DOMAIN sq |-> [v |-> sq[i], first |-> \A j \in 1..(i-1) : sq[j] # sq[i]]],
              LAMBDA e : e.first)

\* C23 (as claimed)  The summary's recommendations has at most 5 entries, holds
\* no string twice, and is the union, in first-seen order, of the
\* recommendations fields of the successful payloads only.
RecommendationsUnion ==
    \A n \in DOMAIN sentLog :
        LET out == sentLog[n].recommendations
            all == FirstSeen(AllRecs(sentLog[n].input))
        IN /\ Len(out) <= 5
           /\ \A i, j \in DOMAIN out : i # j => out[i] # out[j]
           /\ out = [i \in 1..(IF Len(all) < 5 THEN Len(all) ELSE 5) |-> all[i].v]

(***************************************************************************)
(* Parallel dispatch: the join                                             *)
(***************************************************************************)
\* every task of the parallel dispatch that has returned is over, and the result
\* map has as many results as there were tasks
AgentsJoined ==
    (apc = "returned" /\ parallel) =>
        /\ \A i \in DOMAIN atask : atask[i].pc = "done"
        /\ Cardinality(DOMAIN aresults) = Len(requests)
ToolsJoined ==
    (tpc = "returned" /\ Len(tool_calls) > 1) =>
        /\ \A i \in DOMAIN task : task[i].pc = "done"
        /\ Cardinality(DOMAIN results) = Len(tool_calls)

\* C24 (as claimed)  A parallel dispatch does not return before every task it
\* spawned is over, and at the return the result map holds one result per
\* spawned task; once it has returned, no task of it writes to the result map,
\* the cache or the session history.
DispatchJoins ==
    [][/\ AgentsJoined' /\ ToolsJoined'
       /\ (apc = "returned" /\ apc' = "returned") => UNCHANGED <<aresults, session_history>>
       /\ (tpc = "returned" /\ tpc' = "returned") => UNCHANGED <<results, cache, timestamps>>]_vars

(***************************************************************************)
(* Parallel dispatch: the width of the pool                                *)
(***************************************************************************)
\* C25 (as claimed)  During a parallel dispatch the number of calls a worker is
\* running is at every instant at most min(len(requests), max_workers), with
\* max_workers capped at 4, for request lists of any length.
PoolBounded ==
    /\ (apc = "collect" /\ parallel) =>
          Cardinality(Running) <= Min(Len(requests), MaxWorkers)
    /\ tpc = "collect" => Cardinality(Busy) <= Min(Len(tool_calls), MaxWorkers)

(***************************************************************************)
(* Dispatch: the life of one invocation                                    *)
(***************************************************************************)
\* the step stays inside one dispatch
SameDispatch == nqueries' = nqueries
\* the step stores the result of request i in the result map
Stores(i) == ~atask[i].collected /\ atask'[i].collected

\* C26 (as claimed)  Each invocation of a dispatch goes from pending to one
\* outcome and never changes afterwards: the capability is invoked at most once
\* per request, a request that ended in an error is not retried, and its slot in
\* the result map, once written, is not written again during that dispatch.
InvocationTerminal ==
    [][SameDispatch =>
          \A i \in DOMAIN atask :
              /\ atask[i].out # "none" => atask'[i].out = atask[i].out
              /\ atask'[i].invoked <= 1
              /\ atask[i].invoked = 1 => atask'[i].invoked = 1
              /\ Stores(i) => requests[i] \notin DOMAIN aresults]_vars

(***************************************************************************)
(* AgentManager: concurrent recording                                      *)
(***************************************************************************)
\* C27 (as claimed)  When worker threads of a parallel dispatch record
\* concurrently, no record is lost to an interleaving of append and truncation:
\* once all the calls have finished, the history holds the record of every call
\* but those evicted as the oldest beyond 100.
NoRecordLost ==
    (apc = "returned" /\ Running = {}) =>
        {session_history[j].n : j \in DOMAIN session_history}
            = {k \in 1..nrecords : k > nrecords - HistoryCap}

(***************************************************************************)
(* TradingAssistant: what is cached                                        *)
(***************************************************************************)
\* C28 (as claimed)  _execute_tool_with_cache writes a cache entry only when the
\* capability completed successfully: a call whose tool call failed, or whose
\* underlying agent raised (query_agent reporting it as an error result), leaves
\* the cache as it was, and no later request is served the failure from the
\* cache.
FailureNotCached ==
    [][\A i \in DOMAIN task :
          /\ (task[i].pc = "calling" /\ task'[i].ret = <<"failed", PyNone>>)
                => UNCHANGED <<cache, timestamps>>
          /\ (task[i].pc = "calling" /\ task'[i].got = PyStr(AgentErrorPayload))
                => UNCHANGED <<cache, timestamps>>
          /\ task'[i].ret # <<"cached", PyStr(AgentErrorPayload)>>]_vars

(***************************************************************************)
(* TradingAssistant: the counters                                          *)
(***************************************************************************)
ServedFromCache == {i \in DOMAIN task : task[i].ret[1] = "cached"}
ServedByCall == {i \in DOMAIN task : task[i].ret[1] = "ok"}

\* C29 (as claimed)  After a dispatch by _execute_tools_parallel cache_hits has
\* grown by exactly the number of requests served from the cache and
\* tools_called by exactly the number served by a successful invocation: no
\* increment of a worker thread is lost.
CountersExact ==
    tpc = "returned" =>
        /\ stats.cache_hits = stats0.cache_hits + Cardinality(ServedFromCache)
        /\ stats.tools_called = stats0.tools_called + Cardinality(ServedByCall)

(***************************************************************************)
(* TradingAssistant: one invocation per signature                          *)
(***************************************************************************)
\* C30 (as claimed)  No invocation for a signature starts while the cache holds
\* an unexpired entry for it, and two requests with the same signature handled by
\* concurrent workers of one parallel dispatch cause at most one invocation, the
\* other being served from the cache (as long as no entry can have expired and
\* the invocation succeeded).
OneInvocationPerSignature ==
    /\ \A i \in DOMAIN task : task[i].invoked = 1 => ~task[i].held.has
    /\ (tpc = "returned" /\ now <= TTL) =>
          \A i, j \in DOMAIN task :
              (i # j /\ KeyOf(i) = KeyOf(j)) =>
                  ~(task[i].ret[1] = "ok" /\ task[j].ret[1] = "ok")

====
